---- MODULE Spec2Model ----
(***************************************************************************)
(* StateFlow research workflow of notebook.py/agentchat_groupchat_stateflow *)
(* The speaker-selection callback state_transition is modelled from the    *)
(* notebook; the turn loop that drives it (GroupChat / GroupChatManager /  *)
(* initiate_chat) lives in the autogen package and is modelled from the    *)
(* specification's Turn Loop (section 4.2) and Conversation State (3).     *)
(***************************************************************************)
EXTENDS Integers, Sequences, FiniteSets

VARIABLES
    transcript,       \* groupchat.messages as the ordered sequence of Turns
    round_count,      \* number of turns taken in this conversation
    max_rounds,       \* the round cap of this conversation
    terminated,       \* Conversation State: terminated
    status,           \* termination reason of the conversation
    speaker,          \* the next speaker, as last returned by the policy
    arg_last_speaker, \* argument last_speaker of a direct call of the policy
    arg_messages,     \* argument groupchat.messages of a direct call
    result,           \* what the direct call returned (or raised)
    append_outcome,   \* what the last Transcript.append answered
    fn_input,         \* the arguments of a call of one of the examples' functions
    fn_output,        \* what that call returned or raised
    dalle_cache,      \* Cache(".cache/"): key to image data
    api_calls,        \* number of calls of client.images.generate
    dalle_last,       \* the last call of dalle_call: arguments and image data returned
    news_buffer,      \* data.result(): the news not yet put in the conversation
    produced,         \* i of add_stock_price_data: the number of news produced
    data_task,        \* where the task add_stock_price_data is
    waited_since_news, \* since the last news a wait that may last 5 s ended, or data was read
    loop_pc,          \* where the notebook's top-level code is
    chain_pc,         \* where the exchange started by a_send is
    auto_reply_counter, \* user_proxy's consecutive auto replies to the assistant
    delivered,        \* the news in messages user_proxy sent to the assistant
    creator_pc,       \* where DalleCreator._reply_user is
    n_iters,          \* self._n_iters
    iter_i,           \* i of the loop of _reply_user
    img_prompt,       \* img_prompt of _reply_user
    sent,             \* the messages _reply_user sent, in order
    critics_replies,  \* the critics' consecutive auto replies
    creator_result,   \* what _reply_user returned or raised
    tool_calls,       \* the tool calls of one message of the chatbot, in order
    tool_state,       \* per tool call: requested, running or done
    tool_left,        \* per tool call: the iterations of its loop still to run
    tool_events       \* the starts and ends of the tool calls, in order

chat_vars == <<transcript, round_count, max_rounds, terminated, status, speaker>>
call_vars == <<arg_last_speaker, arg_messages, result>>
seq_vars == <<append_outcome>>
fn_vars == <<fn_input, fn_output>>

dalle_vars == <<dalle_cache, api_calls, dalle_last>>
stream_vars == <<news_buffer, produced, data_task, waited_since_news, loop_pc,
                 chain_pc, auto_reply_counter, delivered>>
creator_vars == <<creator_pc, n_iters, iter_i, img_prompt, sent, critics_replies, creator_result>>
toolrun_vars == <<tool_calls, tool_state, tool_left, tool_events>>

\* the state of the other example notebooks
examples_vars == <<fn_vars, dalle_vars, stream_vars, creator_vars, toolrun_vars>>

vars == <<transcript, round_count, max_rounds, terminated, status, speaker,
          arg_last_speaker, arg_messages, result, append_outcome,
          fn_input, fn_output, dalle_cache, api_calls, dalle_last,
          news_buffer, produced, data_task, waited_since_news, loop_pc,
          chain_pc, auto_reply_counter, delivered,
          creator_pc, n_iters, iter_i, img_prompt, sent, critics_replies, creator_result,
          tool_calls, tool_state, tool_left, tool_events>>

\* what the turn loop leaves alone
not_chat_vars == <<call_vars, seq_vars, examples_vars>>

\* what a direct call of the policy leaves alone
not_call_vars == <<chat_vars, seq_vars, examples_vars>>

\* what a direct append to the transcript leaves alone
not_seq_vars == <<round_count, max_rounds, terminated, status, speaker,
                  call_vars, examples_vars>>

\* what a call of one of the examples' functions leaves alone
not_fn_vars == <<chat_vars, call_vars, seq_vars, dalle_vars, stream_vars, creator_vars, toolrun_vars>>

\* what dalle_call leaves alone
not_dalle_vars == <<chat_vars, call_vars, seq_vars, fn_vars, stream_vars, creator_vars, toolrun_vars>>

\* what the streaming example leaves alone
not_stream_vars == <<chat_vars, call_vars, seq_vars, fn_vars, dalle_vars, creator_vars, toolrun_vars>>

\* what the image creator leaves alone
not_creator_vars == <<chat_vars, call_vars, seq_vars, fn_vars, dalle_vars, stream_vars, toolrun_vars>>

\* what the execution of the timer and the stopwatch leaves alone
not_toolrun_vars == <<chat_vars, call_vars, seq_vars, fn_vars, dalle_vars, stream_vars, creator_vars>>

-----------------------------------------------------------------------------
(* Bounds of the model *)

\* longest transcript handed to a direct call of state_transition
MaxLen == 2

\* the largest sequence_number a direct append is tried with
MaxAppends == 3

\* longest history handed to constrain_num_messages
MaxHistory == 5

\* longest message, in pieces of text, handed to terminate_group_chat
MaxPieces == 3

\* most choices of a response handed to get_usage
MaxChoices == 3

\* most calls of the image API in one run
MaxApiCalls == 3

\* the largest n_iters a DalleCreator is made with
MaxIters == 4

\* the longest timer or stopwatch asked for, in seconds
MaxSeconds == 3

-----------------------------------------------------------------------------
(* The agents.  An agent object is denoted by its unique name; no agent is *)
(* named "Scientist", so an agent never equals the string "Scientist".     *)

initializer == "Init"
coder == "Retrieve_Action_1"
executor == "Retrieve_Action_2"
scientist == "Research_Action_1"

\* groupchat.agents
agents == {initializer, coder, executor, scientist}

\* the manager: an agent that is none of the four participants
manager == "chat_manager"

\* Python's None, returned for "no next speaker"
None == "None"

\* messages[-1] on an empty list
IndexError == "IndexError"

\* result of a direct call that has not been made yet
NotCalled == "not-called"

\* GroupChat(max_round=20)
max_round == 20

-----------------------------------------------------------------------------
(* Message contents *)

\* the content state_transition compares with
ExitCode1 == "exitcode: 1"

\* the reports of a code-executing user proxy
ExecFailedReport == "exitcode: 1 (execution failed)\nCode output: Traceback"
ExecSucceededReport == "exitcode: 0 (execution succeeded)\nCode output: papers"

\* the termination marker of the framework's agents
TerminationSentinel == "TERMINATE"

TaskMessage == "Topic: LLM applications papers from last week."
CodeBlock == "import arxiv"
Summary == "Domain, Title, Authors, Summary, Link"

Contents == {"", ExitCode1, ExecFailedReport, ExecSucceededReport,
             TerminationSentinel, TaskMessage}

\* what the initiator may send
InitialMessages == {"", TaskMessage, TerminationSentinel}

\* what each participant may reply
Replies(agent) ==
    IF agent = coder THEN {CodeBlock}
    ELSE IF agent = executor THEN {ExitCode1, ExecFailedReport, ExecSucceededReport}
    ELSE IF agent = scientist THEN {Summary, TerminationSentinel}
    ELSE IF agent = initializer THEN {""}
    ELSE {}

-----------------------------------------------------------------------------
(* The speaker-selection policy *)

\* state_transition with the failure test of the Executor branch inverted
state_transition_inverted_exitcode(last_speaker, groupchat) ==
    LET messages == groupchat.messages IN
    IF last_speaker = initializer THEN coder
    ELSE IF last_speaker = coder THEN executor
    ELSE IF last_speaker = executor THEN
        IF messages = <<>> THEN IndexError
        ELSE IF messages[Len(messages)].content /= ExitCode1 THEN coder
        ELSE scientist
    ELSE None

\* state_transition that skips the execution of the code
state_transition_skip_executor(last_speaker, groupchat) ==
    LET messages == groupchat.messages IN
    IF last_speaker = initializer THEN coder
    ELSE IF last_speaker = coder THEN scientist
    ELSE IF last_speaker = executor THEN
        IF messages = <<>> THEN IndexError
        ELSE IF messages[Len(messages)].content = ExitCode1 THEN coder
        ELSE scientist
    ELSE None

\* state_transition that goes back to retrieval after the research
state_transition_research_loops(last_speaker, groupchat) ==
    LET messages == groupchat.messages IN
    IF last_speaker = initializer THEN coder
    ELSE IF last_speaker = coder THEN executor
    ELSE IF last_speaker = executor THEN
        IF messages = <<>> THEN IndexError
        ELSE IF messages[Len(messages)].content = ExitCode1 THEN coder
        ELSE scientist
    ELSE IF last_speaker = scientist THEN coder
    ELSE None

\* state_transition that looks for the termination marker before routing
state_transition_sentinel_first(last_speaker, groupchat) ==
    LET messages == groupchat.messages IN
    IF messages /= <<>> /\ messages[Len(messages)].content = TerminationSentinel THEN None
    ELSE IF last_speaker = initializer THEN coder
    ELSE IF last_speaker = coder THEN executor
    ELSE IF last_speaker = executor THEN
        IF messages = <<>> THEN IndexError
        ELSE IF messages[Len(messages)].content = ExitCode1 THEN coder
        ELSE scientist
    ELSE None

\* state_transition that reads messages[-1]["content"] before it looks at the
\* last speaker: on an empty list it raises whoever spoke last
state_transition_reads_message_first(last_speaker, groupchat) ==
    LET messages == groupchat.messages IN
    IF messages = <<>> THEN IndexError
    ELSE IF last_speaker = initializer THEN coder
    ELSE IF last_speaker = coder THEN executor
    ELSE IF last_speaker = executor THEN
        IF messages[Len(messages)].content = ExitCode1 THEN coder
        ELSE scientist
    ELSE None

\* the contents that begin with "exitcode: 1"
StartsWithExitCode1(content) == content \in {ExitCode1, ExecFailedReport}

\* state_transition that takes any report beginning with "exitcode: 1" for a failure
state_transition_prefix_match(last_speaker, groupchat) ==
    LET messages == groupchat.messages IN
    IF last_speaker = initializer THEN coder
    ELSE IF last_speaker = coder THEN executor
    ELSE IF last_speaker = executor THEN
        IF messages = <<>> THEN IndexError
        ELSE IF StartsWithExitCode1(messages[Len(messages)].content) THEN coder
        ELSE scientist
    ELSE None

\* state_transition that sends the task straight to the Executor
state_transition_init_to_executor(last_speaker, groupchat) ==
    LET messages == groupchat.messages IN
    IF last_speaker = initializer THEN executor
    ELSE IF last_speaker = coder THEN executor
    ELSE IF last_speaker = executor THEN
        IF messages = <<>> THEN IndexError
        ELSE IF messages[Len(messages)].content = ExitCode1 THEN coder
        ELSE scientist
    ELSE None

state_transition(last_speaker, groupchat) ==
    LET messages == groupchat.messages IN
    IF last_speaker = initializer THEN
        \* init -> retrieve
        coder
    ELSE IF last_speaker = coder THEN
        \* retrieve: action 1 -> action 2
        executor
    ELSE IF last_speaker = executor THEN
        IF messages = <<>> THEN
            IndexError
        ELSE IF messages[Len(messages)].content = ExitCode1 THEN
            \* retrieve --(execution failed)--> retrieve
            coder
        ELSE
            \* retrieve --(execution success)--> research
            scientist
    ELSE IF last_speaker = "Scientist" THEN
        \* research -> end
        None
    ELSE
        \* no branch taken: the function falls off its end
        None

-----------------------------------------------------------------------------
(* The turn loop *)

\* a Turn whose sequence numbers start at 1
TurnCountedFromOne(who, content, n) ==
    [speaker |-> who, content |-> content, sequence_number |-> n + 1]

\* a Turn of the transcript
Turn(who, content, n) == [speaker |-> who, content |-> content, sequence_number |-> n]

\* an append that takes any turn
append_unchecked(t, turn) == Append(t, turn)

\* Transcript.append: takes the turn whose sequence_number is the next one
\* (turns are numbered from 0, so the next number is the current length)
\* and leaves the transcript as it is otherwise
append(t, turn) == IF turn.sequence_number = Len(t) THEN Append(t, turn) ELSE t

\* the transcript as the policy reads it: groupchat.messages
ToMessages(t) == [i \in 1..Len(t) |-> [content |-> t[i].content, name |-> t[i].speaker]]

\* a stop test that lets one turn too many through
RoundLimitExceeded(count, cap) == count > cap

\* a stop test that stops one turn early
RoundLimitNear(count, cap) == count >= cap - 1

\* the loop stops when round_count reaches max_rounds
RoundLimitReached(count, cap) == count >= cap

\* a guard of the loop that forgets the terminated flag
CanTakeTurnIgnoringTerminated == transcript /= <<>>

\* a turn may be produced only in a running, seeded conversation
CanTakeTurn == ~terminated /\ transcript /= <<>>

\* steps (c) and (d) of the loop, after the turn of `who` was appended
AfterAppend(t, who) ==
    LET next == state_transition(who, [messages |-> ToMessages(t)]) IN
    /\ transcript' = t
    /\ round_count' = round_count + 1
    /\ speaker' = next
    /\ terminated' = (RoundLimitReached(round_count + 1, max_rounds) \/ next \notin agents)
    /\ status' = IF RoundLimitReached(round_count + 1, max_rounds) THEN "round-limit-reached"
                 ELSE IF next = None THEN "policy-terminated"
                 ELSE IF next \notin agents THEN "failed"
                 ELSE "running"
    /\ UNCHANGED max_rounds

\* initializer.initiate_chat(manager, message=...): seeds the transcript
initiate_chat(message) ==
    /\ transcript = <<>>
    /\ ~terminated
    /\ AfterAppend(append(transcript, Turn(initializer, message, 0)), initializer)
    /\ UNCHANGED not_chat_vars

\* one iteration: the current speaker replies, the reply is appended, the
\* policy is asked for the next speaker, the stop conditions are checked
TurnLoopStep ==
    /\ CanTakeTurn
    /\ \E content \in Replies(speaker) :
          AfterAppend(append(transcript, Turn(speaker, content, Len(transcript))), speaker)
    /\ UNCHANGED not_chat_vars

ChatIdle ==
    /\ transcript = <<>>
    /\ round_count = 0
    /\ terminated = FALSE
    /\ status = "running"
    /\ speaker = initializer

CallIdle ==
    /\ arg_last_speaker = initializer
    /\ arg_messages = <<>>
    /\ result = NotCalled

SeqIdle == append_outcome = "none"

\* a function call that has not been made: no arguments, no outcome
NoCall == [status |-> "not-called"]

FnIdle == fn_input = NoCall /\ fn_output = NoCall

\* the image cache before any call in this run: nothing cached, no call
DalleIdle ==
    /\ dalle_cache = <<>>
    /\ api_calls = 0
    /\ dalle_last = NoCall

\* the streaming example before its cells run
StreamIdle ==
    /\ news_buffer = <<>>
    /\ produced = 0
    /\ data_task = "not-created"
    /\ waited_since_news = FALSE
    /\ loop_pc = "not-run"
    /\ chain_pc = "idle"
    /\ auto_reply_counter = 0
    /\ delivered = {}

\* the image creator before it is asked for a reply
CreatorIdle ==
    /\ creator_pc = "not-asked"
    /\ n_iters = 0
    /\ iter_i = 0
    /\ img_prompt = ""
    /\ sent = <<>>
    /\ critics_replies = 0
    /\ creator_result = NoCall

\* the timer and the stopwatch before any tool call is requested
ToolRunIdle ==
    /\ tool_calls = <<>>
    /\ tool_state = <<>>
    /\ tool_left = <<>>
    /\ tool_events = <<>>

\* the other example notebooks at rest
ExamplesIdle == FnIdle /\ DalleIdle /\ StreamIdle /\ CreatorIdle /\ ToolRunIdle

\* the StateFlow notebook at rest
StateFlowIdle ==
    /\ ChatIdle
    /\ max_rounds = max_round
    /\ CallIdle
    /\ SeqIdle

Init ==
    /\ ChatIdle
    /\ max_rounds \in 1..max_round
    /\ CallIdle
    /\ SeqIdle
    /\ ExamplesIdle

Next ==
    \/ \E message \in InitialMessages : initiate_chat(message)
    \/ TurnLoopStep

Spec == Init /\ [][Next]_vars

-----------------------------------------------------------------------------
(* Direct calls of the policy on arbitrary arguments *)

\* what may be passed as last_speaker: the four agents, another agent, and
\* the string the last branch compares with
LastSpeakers == agents \cup {manager, "Scientist"}

Message == [content : Contents, name : agents]

RECURSIVE SeqsUpTo(_, _)
SeqsUpTo(S, n) ==
    IF n = 0 THEN {<<>>}
    ELSE LET shorter == SeqsUpTo(S, n - 1) IN
         shorter \cup {Append(s, x) : s \in {q \in shorter : Len(q) = n - 1}, x \in S}

InitCall ==
    /\ ChatIdle
    /\ max_rounds = max_round
    /\ arg_last_speaker \in LastSpeakers
    /\ arg_messages \in SeqsUpTo(Message, MaxLen)
    /\ result = NotCalled
    /\ SeqIdle
    /\ ExamplesIdle

CallStateTransition ==
    /\ result = NotCalled
    /\ result' = state_transition(arg_last_speaker, [messages |-> arg_messages])
    /\ UNCHANGED <<arg_last_speaker, arg_messages>>
    /\ UNCHANGED not_call_vars

NextCall == CallStateTransition

SpecCall == InitCall /\ [][NextCall]_vars

Called == result /= NotCalled

LastContent == arg_messages[Len(arg_messages)].content

-----------------------------------------------------------------------------
(* The Transcript on its own: appends tried in any order *)

\* the turns an append may be tried with
TriedTurns == [speaker : agents, content : {"", TaskMessage}, sequence_number : 0..MaxAppends]

InitTranscript ==
    /\ ChatIdle
    /\ max_rounds = max_round
    /\ CallIdle
    /\ SeqIdle
    /\ ExamplesIdle

\* Transcript.append(turn), with what it answered
TryAppend(turn) ==
    /\ transcript' = append(transcript, turn)
    /\ append_outcome' = IF transcript' = transcript THEN "rejected" ELSE "accepted"
    /\ UNCHANGED not_seq_vars

NextTranscript == \E turn \in TriedTurns : TryAppend(turn)

SpecTranscript == InitTranscript /\ [][NextTranscript]_vars

-----------------------------------------------------------------------------
(* notebook.py/agentchat_compression.py: the customized compression *)

\* the outcome of a call that returned value
Returned(value) == [status |-> "returned", value |-> value]

\* the outcome of a call that raised error
Raised(error) == [status |-> "raised", error |-> error]

\* Python's messages[:n], n >= 0
SliceFirst(messages, n) == SubSeq(messages, 1, IF n < Len(messages) THEN n ELSE Len(messages))

\* Python's messages[-n:], n > 0
SliceLast(messages, n) ==
    SubSeq(messages, IF n < Len(messages) THEN Len(messages) - n + 1 ELSE 1, Len(messages))

\* a compression that saves the first two messages and the last one
constrain_num_messages_first_two(messages) ==
    IF Len(messages) <= 3 THEN <<FALSE, None>>
    ELSE <<TRUE, SliceFirst(messages, 2) \o SliceLast(messages, 1)>>

constrain_num_messages(messages) ==
    IF Len(messages) <= 3 THEN
        \* do nothing
        <<FALSE, None>>
    ELSE
        \* save the first and last two messages
        <<TRUE, SliceFirst(messages, 1) \o SliceLast(messages, 2)>>

\* the messages of a history
HistoryMessages == {"task", "code", "output"}

InitCompress ==
    /\ StateFlowIdle
    /\ DalleIdle
    /\ StreamIdle
    /\ CreatorIdle
    /\ ToolRunIdle
    /\ \E messages \in SeqsUpTo(HistoryMessages, MaxHistory) :
          fn_input = [status |-> "called", messages |-> messages]
    /\ fn_output = NoCall

CallConstrainNumMessages ==
    /\ fn_output = NoCall
    /\ fn_output' = Returned(constrain_num_messages(fn_input.messages))
    /\ UNCHANGED fn_input
    /\ UNCHANGED not_fn_vars

NextCompress == CallConstrainNumMessages

SpecCompress == InitCompress /\ [][NextCompress]_vars

-----------------------------------------------------------------------------
(* notebook.py/agentchat_function_call_async.py: group chat termination.   *)
(* A text is the sequence of its pieces; the marker is one piece.          *)

GROUPCHAT_TERMINATE == "GROUPCHAT_TERMINATE"

\* Python's  sub in text
Contains(text, sub) ==
    \E i \in 1..(Len(text) - Len(sub) + 1) : SubSeq(text, i, i + Len(sub) - 1) = sub

\* a termination tool that sends the message without the marker
terminate_group_chat_unmarked(message) == <<"[", "TERMINATE", "] ">> \o message

\* f"[GROUPCHAT_TERMINATE] {message}"
terminate_group_chat(message) == <<"[", GROUPCHAT_TERMINATE, "] ">> \o message

\* the manager's is_termination_msg: "GROUPCHAT_TERMINATE" in x.get("content", "")
is_termination_msg(x) ==
    Contains(IF "content" \in DOMAIN x THEN x.content ELSE <<>>, <<GROUPCHAT_TERMINATE>>)

\* the pieces a message is made of
Pieces == {GROUPCHAT_TERMINATE, "TERMINATE", "Timer is done!", " "}

InitTerminate ==
    /\ StateFlowIdle
    /\ DalleIdle
    /\ StreamIdle
    /\ CreatorIdle
    /\ ToolRunIdle
    /\ \E message \in SeqsUpTo(Pieces, MaxPieces) :
          fn_input = [status |-> "called", message |-> message]
    /\ fn_output = NoCall

CallTerminateGroupChat ==
    /\ fn_output = NoCall
    /\ fn_output' = Returned(terminate_group_chat(fn_input.message))
    /\ UNCHANGED fn_input
    /\ UNCHANGED not_fn_vars

NextTerminate == CallTerminateGroupChat

SpecTerminate == InitTerminate /\ [][NextTerminate]_vars

-----------------------------------------------------------------------------
(* notebook.py/agentchat_custom_model.py: the usage of a response.         *)
(* A dict is the function from its keys to their values.                   *)

\* ModelClient.RESPONSE_USAGE_KEYS
RESPONSE_USAGE_KEYS == {"prompt_tokens", "completion_tokens", "total_tokens", "cost", "model"}

\* the empty dict {}
EmptyDict == <<>>

\* CustomModelClient.get_usage, a static method: return {}
get_usage(response) == EmptyDict

\* the client classes; CustomModelClientWithArguments inherits get_usage
ClientClasses == {"CustomModelClient", "CustomModelClientWithArguments"}

\* the responses create builds: choices, model, and the cost set by cost()
Responses ==
    [choices : SeqsUpTo({"print('Hello World!')", "", "TERMINATE"}, MaxChoices),
     model : {"Open-Orca/Mistral-7B-OpenOrca", "gpt-4"},
     cost : {0}]

InitUsage ==
    /\ StateFlowIdle
    /\ DalleIdle
    /\ StreamIdle
    /\ CreatorIdle
    /\ ToolRunIdle
    /\ \E cls \in ClientClasses : \E response \in Responses :
          fn_input = [status |-> "called", client_cls |-> cls, response |-> response]
    /\ fn_output = NoCall

CallGetUsage ==
    /\ fn_output = NoCall
    /\ fn_output' = Returned(get_usage(fn_input.response))
    /\ UNCHANGED fn_input
    /\ UNCHANGED not_fn_vars

NextUsage == CallGetUsage

SpecUsage == InitUsage /\ [][NextUsage]_vars

-----------------------------------------------------------------------------
(* notebook.py/agentchat_function_call.py, agentchat_compression.py and    *)
(* agentchat_function_call_currency_calculator.py: the registered tools.   *)
(* A text is the sequence of its lines or pieces; an amount is the exact   *)
(* fraction <<numerator, denominator>>.                                    *)

\* str(x), what an f-string puts for {x}: the printed form of the object x
Str(x) == [str |-> x]

\* exec_python that leaves the error raised by the cell out of the log
exec_python_without_exec_error(cell, run_cell) ==
    LET log == <<Str(run_cell.result)>>
        log1 == IF run_cell.error_before_exec /= None
                THEN Append(log, Str(run_cell.error_before_exec)) ELSE log
    IN  Returned([text |-> log1, ran |-> [interpreter |-> "ipython", code |-> cell]])

\* exec_python; run_cell is the ExecutionResult ipython.run_cell(cell) gives
exec_python(cell, run_cell) ==
    LET log0 == <<Str(run_cell.result)>>
        log1 == IF run_cell.error_before_exec /= None
                THEN Append(log0, Str(run_cell.error_before_exec)) ELSE log0
        log2 == IF run_cell.error_in_exec /= None
                THEN Append(log1, Str(run_cell.error_in_exec)) ELSE log1
    IN  Returned([text |-> log2, ran |-> [interpreter |-> "ipython", code |-> cell]])

\* exec_sh; shell is what execute_code_blocks([("sh", script)]) gives
exec_sh(script, shell) ==
    Returned([text |-> <<Str(shell.exitcode), Str(shell.logs)>>,
              ran |-> [interpreter |-> "sh", code |-> script]])

\* a Python float: a double, named by the digits repr prints for it
Float(digits) == [float |-> digits]

\* the amounts a tool call is made with
BaseAmounts == {0, 3, 100}

\* x * n in double arithmetic for a rate x and an amount n of BaseAmounts:
\* the double nearest to the product, which is not always the product of
\* the decimals (1.1 * 100 is 110.00000000000001)
float_mul(x, n) ==
    IF n = 0 THEN Float("0.0")
    ELSE IF x = Float("1.0") THEN (IF n = 3 THEN Float("3.0") ELSE Float("100.0"))
    ELSE IF x = Float("0.9090909090909091")
         THEN (IF n = 3 THEN Float("2.727272727272727") ELSE Float("90.9090909090909"))
    ELSE (IF n = 3 THEN Float("3.3000000000000003") ELSE Float("110.00000000000001"))

\* exchange_rate: 1.0, 1 / 1.1, 1.1
exchange_rate(base_currency, quote_currency) ==
    IF base_currency = quote_currency THEN Returned(Float("1.0"))
    ELSE IF base_currency = "USD" /\ quote_currency = "EUR"
         THEN Returned(Float("0.9090909090909091"))
    ELSE IF base_currency = "EUR" /\ quote_currency = "USD" THEN Returned(Float("1.1"))
    ELSE Raised([type |-> "ValueError",
                 message |-> <<"Unknown currencies ", base_currency, ", ", quote_currency>>])

\* currency_calculator: f"{quote_amount} {quote_currency}"
currency_calculator(base_amount, base_currency, quote_currency) ==
    LET rate == exchange_rate(base_currency, quote_currency) IN
    IF rate.status = "raised" THEN rate
    ELSE LET quote_amount == float_mul(rate.value, base_amount) IN
         Returned([text |-> <<Str(quote_amount), Str(" "), Str(quote_currency)>>,
                   ran |-> [interpreter |-> "python", code |-> "currency_calculator"]])

\* user_proxy.function_map of each example: tool name to implementation
function_map(example) ==
    IF example = "agentchat_function_call"
    THEN [python |-> "exec_python", sh |-> "exec_python"]
    ELSE IF example = "agentchat_compression"
    THEN [python |-> "exec_python", sh |-> "exec_sh"]
    ELSE [currency_calculator |-> "currency_calculator"]

\* the call of the implementation with the arguments of the tool call
Invoke(impl, call) ==
    IF impl = "exec_python" THEN exec_python(call.argument, call.run_cell)
    ELSE IF impl = "exec_sh" THEN exec_sh(call.argument, call.shell)
    ELSE currency_calculator(call.base_amount, call.base_currency, call.quote_currency)

\* the tool executor: runs the function registered under the name of the
\* call and gives its result, or its error, as the content of the next turn
execute_function(call) ==
    LET map == function_map(call.example) IN
    IF call.name \notin DOMAIN map
    THEN [kind |-> "text", text |-> <<Str("Error: Function not found")>>,
          impl |-> None, ran |-> None]
    ELSE LET outcome == Invoke(map[call.name], call) IN
         IF outcome.status = "raised"
         THEN [kind |-> "text", text |-> <<Str("Error: "), Str(outcome.error)>>,
               impl |-> map[call.name], ran |-> None]
         ELSE [kind |-> "text", text |-> outcome.value.text,
               impl |-> map[call.name], ran |-> outcome.value.ran]

\* what ipython.run_cell may answer
ExecutionResults ==
    [result : {None, "4"},
     error_before_exec : {None, "SyntaxError"},
     error_in_exec : {None, "ZeroDivisionError"}]

\* what execute_code_blocks may answer
ShellResults == [exitcode : {0, 1}, logs : {"", "sh: 1: plt: not found"}]

CodeToolCalls ==
    [status : {"called"},
     example : {"agentchat_function_call", "agentchat_compression"},
     name : {"python", "sh", "bash"},
     argument : {"1/0", "ls"},
     run_cell : ExecutionResults,
     shell : ShellResults]

CurrencySymbols == {"USD", "EUR", "GBP"}

CurrencyToolCalls ==
    [status : {"called"},
     example : {"agentchat_function_call_currency_calculator"},
     name : {"currency_calculator"},
     base_amount : BaseAmounts,
     base_currency : CurrencySymbols,
     quote_currency : CurrencySymbols]

InitTools ==
    /\ StateFlowIdle
    /\ DalleIdle
    /\ StreamIdle
    /\ CreatorIdle
    /\ ToolRunIdle
    /\ \/ fn_input \in CodeToolCalls
       \/ fn_input \in CurrencyToolCalls
    /\ fn_output = NoCall

ExecuteToolCall ==
    /\ fn_output = NoCall
    /\ fn_output' = Returned(execute_function(fn_input))
    /\ UNCHANGED fn_input
    /\ UNCHANGED not_fn_vars

NextTools == ExecuteToolCall

SpecTools == InitTools /\ [][NextTools]_vars

-----------------------------------------------------------------------------
(* notebook.py/agentchat_dalle_and_gpt4v.py: the cached image generation.  *)
(* The cache is the function from the keys it holds to their image data.   *)

\* a key that leaves the quality out
CacheKeyWithoutQuality(model, prompt, size, quality, n) == <<model, prompt, size, n>>

\* key = (model, prompt, size, quality, n)
CacheKey(model, prompt, size, quality, n) == <<model, prompt, size, quality, n>>

\* the cache with key set to value: cache[key] = value
CacheSet(cache, key, value) ==
    [k \in DOMAIN cache \cup {key} |-> IF k = key THEN value ELSE cache[k]]

\* the arguments dalle_call is called with
DalleArgs ==
    [model : {"dall-e-3"},
     prompt : {"a happy robot", "a happy robot, in watercolor"},
     size : {"1024x1024"},
     quality : {"standard", "hd"},
     n : {1}]

\* the image data the API may answer with
Images == {"png-1", "png-2"}

KeyOf(args) == CacheKey(args.model, args.prompt, args.size, args.quality, args.n)

\* the caches the directory .cache/ may hold when the notebook starts
StoredCaches ==
    UNION {[D -> Images] : D \in SUBSET {KeyOf(args) : args \in DalleArgs}}

InitDalle ==
    /\ StateFlowIdle
    /\ FnIdle
    /\ StreamIdle
    /\ CreatorIdle
    /\ ToolRunIdle
    /\ dalle_cache \in StoredCaches
    /\ api_calls = 0
    /\ dalle_last = NoCall

\* dalle_call(client, model, prompt, size, quality, n): what the function
\* does to the cache, the API and its return value
dalle_call(args) ==
    LET key == CacheKey(args.model, args.prompt, args.size, args.quality, args.n) IN
    IF key \in DOMAIN dalle_cache
    THEN /\ dalle_last' = [status |-> "returned", args |-> args,
                           value |-> dalle_cache[key], api_called |-> FALSE]
         /\ UNCHANGED <<dalle_cache, api_calls>>
    ELSE \* client.images.generate, then get_image_data of its first url
         /\ api_calls' = api_calls + 1
         /\ \/ \E img_data \in Images :
                  /\ dalle_cache' = CacheSet(dalle_cache, key, img_data)
                  /\ dalle_last' = [status |-> "returned", args |-> args,
                                    value |-> img_data, api_called |-> TRUE]
            \/ \* the request (client.images.generate) or the download of
               \* the image (get_image_data) raises: nothing is caught, the
               \* line cache[key] = img_data is not reached
               \E error \in {"openai.OpenAIError", "requests.RequestException"} :
                  /\ dalle_last' = [status |-> "raised", args |-> args,
                                    error |-> error, api_called |-> TRUE]
                  /\ UNCHANGED dalle_cache

\* a call of dalle_call on its own; the number of calls of the API is capped
CallDalle(args) ==
    /\ KeyOf(args) \in DOMAIN dalle_cache \/ api_calls < MaxApiCalls
    /\ dalle_call(args)
    /\ UNCHANGED not_dalle_vars

NextDalle == \E args \in DalleArgs : CallDalle(args)

SpecDalle == InitDalle /\ [][NextDalle]_vars

-----------------------------------------------------------------------------
(* notebook.py/agentchat_stream.py: news streamed into a running chat.     *)
(* The task add_stock_price_data and the top-level code share one event    *)
(* loop: each runs from one await to the next without interruption.  What  *)
(* a_initiate_chat, a_generate_reply and a_send do inside the autogen      *)
(* package (the exchange of replies a send starts, the count of            *)
(* consecutive auto replies) is modelled from the package's documented     *)
(* behaviour and the specification's section 5.                            *)

\* for i in range(0, 5, 1)
NumNews == 5

\* user_proxy = autogen.UserProxyAgent(..., max_consecutive_auto_reply=5, ...)
max_consecutive_auto_reply == 5

\* get_market_news(i, i + 1), told apart by i
NewsItems == 0 .. (NumNews - 1)

user_proxy == "user"
assistant == "assistant"

\* data.done(): set_result has been called, by the first iteration
data_done(n) == n > 0

\* a send that is not awaited: the code after it runs at once
a_send_not_awaited(chain) == TRUE

\* await user_proxy.a_send(...) / await user_proxy.a_initiate_chat(...): the
\* awaiting code goes on when the exchange the send started has ended
a_send_returned(chain) == chain = "idle"

\* the replies in production: the loop's a_generate_reply, and the reply of
\* the exchange's current speaker
RepliesInProduction(loop, chain) ==
    (IF loop = "a_generate_reply" THEN 1 ELSE 0)
    + (IF chain \in {"assistant_reply", "user_reply"} THEN 1 ELSE 0)

\* who is producing a reply
Producing(loop, chain) ==
    (IF loop = "a_generate_reply" \/ chain = "user_reply" THEN {user_proxy} ELSE {})
    \cup (IF chain = "assistant_reply" THEN {assistant} ELSE {})

\* the first step of a task that was created runs before any code that
\* waits on the event loop is resumed
TaskStarted == data_done(produced)

\* await asyncio.sleep(5) of the task against the waits of the top-level
\* code.  Five seconds can have passed since the last news when the cell of
\* the chat has not been run yet or the top-level code has ended, when a
\* reply of the language model is awaited, when such a wait has ended since
\* the news, or when add_data_reply has read data since the news.  They
\* cannot have passed inside the one sleep of 0.1 seconds in which the news
\* arrived: the read at the end of that sleep comes first
sleep_5_elapsed ==
    \/ loop_pc \in {"start", "exited", "raised"}
    \/ chain_pc = "assistant_reply"
    \/ waited_since_news

\* the task runs only while the top-level code does not: before the cell
\* of the chat runs, while it is suspended in an await, after it ended
EventLoopFree ==
    \/ loop_pc \in {"start", "a_generate_reply", "exited", "raised"}
    \/ chain_pc \in {"assistant_reply", "user_reply"}

InitStream ==
    /\ StateFlowIdle
    /\ FnIdle
    /\ DalleIdle
    /\ CreatorIdle
    /\ ToolRunIdle
    /\ news_buffer = <<>>
    /\ produced = 0
    /\ data_task = "ready"          \* data_task = asyncio.create_task(...)
    /\ waited_since_news = FALSE
    /\ loop_pc = "start"
    /\ chain_pc = "idle"
    /\ auto_reply_counter = 0
    /\ delivered = {}

\* one iteration of add_stock_price_data, up to its await asyncio.sleep(5)
ProduceNews ==
    /\ data_task = "ready"
    /\ EventLoopFree
    /\ produced < NumNews
    /\ news_buffer' = Append(news_buffer, produced)
    /\ produced' = produced + 1
    /\ data_task' = "sleeping"
    /\ waited_since_news' = FALSE
    /\ UNCHANGED <<loop_pc, chain_pc, auto_reply_counter, delivered>>
    /\ UNCHANGED not_stream_vars

\* asyncio.sleep(5) returns: the next iteration, or the end of the task
ProducerWakes ==
    /\ data_task = "sleeping"
    /\ EventLoopFree
    /\ sleep_5_elapsed
    /\ data_task' = IF produced < NumNews THEN "ready" ELSE "done"
    /\ UNCHANGED <<news_buffer, produced, waited_since_news, loop_pc, chain_pc,
                   auto_reply_counter, delivered>>
    /\ UNCHANGED not_stream_vars

\* await user_proxy.a_initiate_chat(assistant, message=...): the counter of
\* auto replies is reset, the message is sent, the assistant is asked
a_initiate_chat ==
    /\ loop_pc = "start"
    /\ loop_pc' = "a_initiate_chat"
    /\ chain_pc' = "assistant_reply"
    /\ auto_reply_counter' = 0
    /\ waited_since_news' = TRUE
    /\ UNCHANGED <<news_buffer, produced, data_task, delivered>>
    /\ UNCHANGED not_stream_vars

\* the awaited a_initiate_chat or a_send returns; the loop is at its head
AwaitReturns ==
    /\ loop_pc \in {"a_initiate_chat", "a_send"}
    /\ a_send_returned(chain_pc)
    /\ loop_pc' = "head"
    /\ UNCHANGED <<news_buffer, produced, data_task, waited_since_news, chain_pc,
                   auto_reply_counter, delivered>>
    /\ UNCHANGED not_stream_vars

\* while not data_task.done() and not data_task.cancelled():
\*     reply = await user_proxy.a_generate_reply(sender=assistant)
\* up to the first await of a_generate_reply.  With human_input_mode "NEVER"
\* the reply is None and the counter is reset once max_consecutive_auto_reply
\* replies were made; below it the reply is counted and add_data_reply is
\* run, which first awaits asyncio.sleep(0.1)
LoopHead ==
    /\ loop_pc = "head"
    /\ TaskStarted
    /\ IF data_task = "done"
       THEN loop_pc' = "exited" /\ UNCHANGED auto_reply_counter
       ELSE IF auto_reply_counter >= max_consecutive_auto_reply
            THEN loop_pc' = "head" /\ auto_reply_counter' = 0
            ELSE /\ loop_pc' = "a_generate_reply"
                 /\ auto_reply_counter' = auto_reply_counter + 1
    /\ UNCHANGED <<news_buffer, produced, data_task, waited_since_news, chain_pc,
                   delivered>>
    /\ UNCHANGED not_stream_vars

\* add_data_reply after its sleep, as the pair (final, reply); the news of
\* a reply stand for the text that joins them
add_data_reply(done, buffer) ==
    IF done
    THEN IF buffer /= <<>>
         THEN <<TRUE, [news |-> {buffer[i] : i \in DOMAIN buffer}]>>
         ELSE <<FALSE, None>>
    ELSE None

\* the loop's a_generate_reply goes on after the sleep of add_data_reply:
\*     if reply is not None: await user_proxy.a_send(reply, assistant)
\* no other reply function of user_proxy answers, default_auto_reply is None
LoopReply ==
    /\ loop_pc = "a_generate_reply"
    /\ TaskStarted
    /\ LET answer == add_data_reply(data_done(produced), news_buffer) IN
       IF answer = None
       THEN \* final, reply = None: TypeError
            /\ loop_pc' = "raised"
            /\ UNCHANGED <<news_buffer, chain_pc, delivered>>
       ELSE IF answer[1]
            THEN /\ news_buffer' = <<>>           \* result.clear()
                 /\ delivered' = delivered \cup answer[2].news
                 /\ chain_pc' = "assistant_reply"
                 /\ loop_pc' = "a_send"
            ELSE /\ loop_pc' = "head"
                 /\ UNCHANGED <<news_buffer, chain_pc, delivered>>
    /\ waited_since_news' = TRUE
    /\ UNCHANGED <<produced, data_task, auto_reply_counter>>
    /\ UNCHANGED not_stream_vars

\* the assistant's reply arrives from the language model and is sent to
\* user_proxy, which is asked for its reply: None, ending the exchange, once
\* max_consecutive_auto_reply replies were made, else add_data_reply
AssistantReplies ==
    /\ chain_pc = "assistant_reply"
    /\ TaskStarted
    /\ IF auto_reply_counter >= max_consecutive_auto_reply
       THEN chain_pc' = "idle" /\ auto_reply_counter' = 0
       ELSE /\ chain_pc' = "user_reply"
            /\ auto_reply_counter' = auto_reply_counter + 1
    /\ waited_since_news' = TRUE
    /\ UNCHANGED <<news_buffer, produced, data_task, loop_pc, delivered>>
    /\ UNCHANGED not_stream_vars

\* user_proxy's reply inside the exchange goes on after the sleep of
\* add_data_reply: news are sent to the assistant, None ends the exchange
UserProxyReplies ==
    /\ chain_pc = "user_reply"
    /\ LET answer == add_data_reply(data_done(produced), news_buffer) IN
       IF answer = None
       THEN /\ chain_pc' = "raised"
            /\ UNCHANGED <<news_buffer, delivered>>
       ELSE IF answer[1]
            THEN /\ news_buffer' = <<>>
                 /\ delivered' = delivered \cup answer[2].news
                 /\ chain_pc' = "assistant_reply"
            ELSE /\ chain_pc' = "idle"
                 /\ UNCHANGED <<news_buffer, delivered>>
    /\ waited_since_news' = TRUE
    /\ UNCHANGED <<produced, data_task, loop_pc, auto_reply_counter>>
    /\ UNCHANGED not_stream_vars

NextStream ==
    \/ ProduceNews
    \/ ProducerWakes
    \/ a_initiate_chat
    \/ AwaitReturns
    \/ LoopHead
    \/ LoopReply
    \/ AssistantReplies
    \/ UserProxyReplies

SpecStream == InitStream /\ [][NextStream]_vars

-----------------------------------------------------------------------------
(* notebook.py/agentchat_dalle_and_gpt4v.py: DalleCreator, one reply.      *)
(* A text is the sequence of its lines; a line that holds "PROMPT: " is    *)
(* told apart from one that does not, with the text after the marker.      *)

dalle == "Dalle"
critics == "Critics"

\* MultimodalConversableAgent(name="Critics", ..., max_consecutive_auto_reply=3)
critics_max_consecutive_auto_reply == 3

PlainLine(text) == [kind |-> "plain", text |-> text]
PromptLine(rest) == [kind |-> "prompt", text |-> rest]

\* re.findall("PROMPT: (.*)", feedback): the rest of every line that holds
\* the marker, in order
findall_PROMPT(feedback) ==
    LET matches == SelectSeq(feedback, LAMBDA line : line.kind = "prompt")
    IN [k \in 1..Len(matches) |-> matches[k].text]

\* self.msg_to_critics = f"""Here is the prompt: {img_prompt}. ..."""
msg_to_critics(prompt) ==
    <<PlainLine([here_is_the_prompt |-> prompt]),
      PlainLine("Here is the figure <img result.png>."),
      PlainLine("Now, critic and create a prompt so that DALLE can give me a better image."),
      PlainLine("Show me both CRITICS and PROMPT!")>>

\* the message of the user the reply is asked for
UserPrompts == {"a happy robot is showing a sign"}

\* what the critics may answer
Feedbacks ==
    {<<PlainLine("CRITICS: the image needs more contrast"),
       PromptLine("a happy robot, neon sign")>>,
     <<PlainLine("CRITICS: the text is unclear"),
       PromptLine("a happy robot, bold letters"),
       PromptLine("a happy robot, neon sign")>>,
     <<PlainLine("CRITICS: the image is fine as it is")>>}

\* self._oai_messages[self.critics][-1]["content"] after the send: the
\* critics' reply, or the message just sent when the critics gave none
\* because they had made max_consecutive_auto_reply replies
LatestFeedbacks(message, replies) ==
    IF replies >= critics_max_consecutive_auto_reply THEN {message} ELSE Feedbacks

\* DALLEAgent.generate_dalle_reply, the reply of self.dalle to a send:
\* prompt = messages[-1]["content"], then dalle_call with the fixed model,
\* size, quality and n
generate_dalle_reply(prompt) ==
    dalle_call([model |-> "dall-e-3", prompt |-> prompt, size |-> "1024x1024",
                quality |-> "standard", n |-> 1])

\* the caches the directory .cache/ may hold when the reply is asked for:
\* images stored under keys of the prompts the creator may send to self.dalle
CreatorStoredCaches ==
    LET prompts ==
            UserPrompts \cup
            UNION {{found[k] : k \in 1..Len(found)} :
                     found \in {findall_PROMPT(feedback) : feedback \in Feedbacks}}
    IN UNION {[D -> Images] :
                D \in SUBSET {CacheKey("dall-e-3", prompt, "1024x1024", "standard", 1) :
                                 prompt \in prompts}}

\* a send that is answered with an image
ToDalle(prompt) == [recipient |-> dalle, content |-> prompt]

\* a send to the critics, with what was last in the conversation after it
ToCritics(message, feedback) ==
    [recipient |-> critics, content |-> message, feedback |-> feedback]

InitCreator ==
    /\ StateFlowIdle
    /\ FnIdle
    /\ StreamIdle
    /\ ToolRunIdle
    /\ dalle_cache \in CreatorStoredCaches
    /\ api_calls = 0
    /\ dalle_last = NoCall
    /\ creator_pc = "asked"
    /\ n_iters \in 0..MaxIters       \* DalleCreator(n_iters=...)
    /\ iter_i = 0
    /\ img_prompt \in UserPrompts    \* img_prompt = messages[-1]["content"]
    /\ sent = <<>>
    /\ critics_replies = 0           \* self.critics is made anew in each reply
    /\ creator_result = NoCall

\* self.send(message=img_prompt, recipient=self.dalle, request_reply=True)
\* before the loop, with the reply of self.dalle
InitialGeneration ==
    /\ creator_pc = "asked"
    /\ sent' = Append(sent, ToDalle(img_prompt))
    /\ generate_dalle_reply(img_prompt)
    /\ IF dalle_last'.status = "raised"
       THEN \* the error leaves the send and the reply
            /\ creator_pc' = "raised"
            /\ creator_result' = Raised(dalle_last'.error)
       ELSE /\ creator_pc' = "loop"
            /\ UNCHANGED creator_result
    /\ UNCHANGED <<n_iters, iter_i, img_prompt, critics_replies>>
    /\ UNCHANGED <<chat_vars, call_vars, seq_vars, fn_vars, stream_vars, toolrun_vars>>

\* for i in range(self._n_iters): the send to the critics, the feedback and
\* img_prompt = re.findall("PROMPT: (.*)", feedback)[0]
ConsultCritics ==
    /\ creator_pc = "loop"
    /\ iter_i < n_iters
    /\ LET message == msg_to_critics(img_prompt) IN
       \E feedback \in LatestFeedbacks(message, critics_replies) :
          LET prompts == findall_PROMPT(feedback) IN
          /\ sent' = Append(sent, ToCritics(message, feedback))
          /\ critics_replies' =
                IF critics_replies >= critics_max_consecutive_auto_reply
                THEN 0 ELSE critics_replies + 1
          /\ IF prompts = <<>>
             THEN \* [][0]
                  /\ creator_pc' = "raised"
                  /\ creator_result' = Raised(IndexError)
                  /\ UNCHANGED img_prompt
             ELSE /\ creator_pc' = "improved"
                  /\ img_prompt' = prompts[1]
                  /\ UNCHANGED creator_result
    /\ UNCHANGED <<n_iters, iter_i>>
    /\ UNCHANGED not_creator_vars

\* self.send(message=img_prompt, recipient=self.dalle, request_reply=True)
\* at the end of an iteration, with the reply of self.dalle
ImprovedGeneration ==
    /\ creator_pc = "improved"
    /\ sent' = Append(sent, ToDalle(img_prompt))
    /\ generate_dalle_reply(img_prompt)
    /\ IF dalle_last'.status = "raised"
       THEN \* the error leaves the send and the reply
            /\ creator_pc' = "raised"
            /\ creator_result' = Raised(dalle_last'.error)
            /\ UNCHANGED iter_i
       ELSE /\ creator_pc' = "loop"
            /\ iter_i' = iter_i + 1
            /\ UNCHANGED creator_result
    /\ UNCHANGED <<n_iters, img_prompt, critics_replies>>
    /\ UNCHANGED <<chat_vars, call_vars, seq_vars, fn_vars, stream_vars, toolrun_vars>>

\* return True, "result.jpg"
ReturnResult ==
    /\ creator_pc = "loop"
    /\ iter_i >= n_iters
    /\ creator_pc' = "returned"
    /\ creator_result' = Returned(<<TRUE, "result.jpg">>)
    /\ UNCHANGED <<n_iters, iter_i, img_prompt, sent, critics_replies>>
    /\ UNCHANGED not_creator_vars

NextCreator ==
    \/ InitialGeneration
    \/ ConsultCritics
    \/ ImprovedGeneration
    \/ ReturnResult

SpecCreator == InitCreator /\ [][NextCreator]_vars

-----------------------------------------------------------------------------
(* notebook.py/agentchat_function_call_async.py: the timer and the         *)
(* stopwatch requested in one message of the chatbot and executed by       *)
(* user_proxy.  The executor of the autogen package starts the calls of a  *)
(* message in their order on one event loop; a call that was started keeps *)
(* the event loop until it awaits something or ends.                       *)

timer == "timer"
stopwatch == "stopwatch"

\* int(num_seconds) of the text of a number
int(text) == text.str

\* range(int(num_seconds)): the number of iterations of the loop
Iterations(num_seconds) == IF int(num_seconds) > 0 THEN int(num_seconds) ELSE 0

\* what a tool returns: "Timer is done!" / "Stopwatch is done!"
ToolResult(name) == IF name = timer THEN "Timer is done!" ELSE "Stopwatch is done!"

\* whether the wait inside the loop of a tool gives the event loop away:
\* both loops call time.sleep(1), which blocks the thread; the timer is an
\* async def that awaits nothing
sleep_yields(name) == FALSE

\* the tool calls of a message: a timer and a stopwatch, in either order
ToolCallLists ==
    {<<[name |-> first, num_seconds |-> Str(n1)],
       [name |-> second, num_seconds |-> Str(n2)]>> :
        <<first, second, n1, n2>> \in
            {q \in {timer, stopwatch} \X {timer, stopwatch}
                     \X (0..MaxSeconds) \X (0..MaxSeconds) : q[1] /= q[2]}}

InitToolRun ==
    /\ StateFlowIdle
    /\ FnIdle
    /\ DalleIdle
    /\ StreamIdle
    /\ CreatorIdle
    /\ tool_calls \in ToolCallLists
    /\ tool_state = [k \in 1..2 |-> "requested"]
    /\ tool_left = [k \in 1..2 |-> 0]
    /\ tool_events = <<>>

\* what can happen next to the calls of one message, in the configuration c
\* of their states and of the iterations their loops have left:
\*   start: the executor starts call k when the calls before it were started
\*          and no call that was started holds the event loop; the tool runs
\*          up to its first time.sleep(1)
\*   sleep: time.sleep(1) of call k returns, one iteration of its loop is over
\*   end:   call k returns its result
ToolRunSteps(calls, c) ==
    LET EventLoopThreadFree ==
            \A j \in DOMAIN calls :
                c.state[j] = "running" => sleep_yields(calls[j].name)
        CanStart(k) ==
            /\ c.state[k] = "requested"
            /\ \A j \in 1..(k - 1) : c.state[j] /= "requested"
            /\ EventLoopThreadFree
    IN {[action |-> "start", k |-> k,
         state |-> [c.state EXCEPT ![k] = "running"],
         left |-> [c.left EXCEPT ![k] = Iterations(calls[k].num_seconds)]] :
            k \in {k \in DOMAIN calls : CanStart(k)}}
       \cup
       {[action |-> "sleep", k |-> k,
         state |-> c.state,
         left |-> [c.left EXCEPT ![k] = c.left[k] - 1]] :
            k \in {k \in DOMAIN calls : c.state[k] = "running" /\ c.left[k] > 0}}
       \cup
       {[action |-> "end", k |-> k,
         state |-> [c.state EXCEPT ![k] = "done"],
         left |-> c.left] :
            k \in {k \in DOMAIN calls : c.state[k] = "running" /\ c.left[k] = 0}}

\* the configurations the calls of one message can get into from those of
\* seen, by any number of steps
RECURSIVE ToolRunReach(_, _)
ToolRunReach(calls, seen) ==
    LET next == seen \cup {[state |-> step.state, left |-> step.left] :
                              step \in UNION {ToolRunSteps(calls, c) : c \in seen}}
    IN IF next = seen THEN seen ELSE ToolRunReach(calls, next)

\* the executor starts call k
StartTool(k) ==
    /\ \E step \in ToolRunSteps(tool_calls, [state |-> tool_state, left |-> tool_left]) :
          /\ step.action = "start" /\ step.k = k
          /\ tool_state' = step.state
          /\ tool_left' = step.left
    /\ tool_events' = Append(tool_events, [event |-> "start", tool |-> tool_calls[k].name])
    /\ UNCHANGED tool_calls
    /\ UNCHANGED not_toolrun_vars

\* time.sleep(1) of call k returns: one iteration of its loop is over
SleepOneSecond(k) ==
    /\ \E step \in ToolRunSteps(tool_calls, [state |-> tool_state, left |-> tool_left]) :
          /\ step.action = "sleep" /\ step.k = k
          /\ tool_state' = step.state
          /\ tool_left' = step.left
    /\ UNCHANGED <<tool_calls, tool_events>>
    /\ UNCHANGED not_toolrun_vars

\* return "Timer is done!" / return "Stopwatch is done!"
FinishTool(k) ==
    /\ \E step \in ToolRunSteps(tool_calls, [state |-> tool_state, left |-> tool_left]) :
          /\ step.action = "end" /\ step.k = k
          /\ tool_state' = step.state
          /\ tool_left' = step.left
    /\ tool_events' = Append(tool_events,
                             [event |-> "end", tool |-> tool_calls[k].name,
                              result |-> ToolResult(tool_calls[k].name)])
    /\ UNCHANGED tool_calls
    /\ UNCHANGED not_toolrun_vars

NextToolRun ==
    \E k \in 1..2 :
        \/ StartTool(k)
        \/ SleepOneSecond(k)
        \/ FinishTool(k)

SpecToolRun == InitToolRun /\ [][NextToolRun]_vars

-----------------------------------------------------------------------------
(* Properties of the policy called directly (SpecCall) *)

\* C1: when the last speaker is the Executor and the last message has the
\* content "exitcode: 1", state_transition returns the Coder, not the Scientist
C1_FailedExecutionReturnsCoder ==
    (Called /\ arg_last_speaker = executor /\ arg_messages /= <<>> /\ LastContent = ExitCode1)
        => (result = coder /\ result /= scientist)

C1_Witness ==
    /\ Called
    /\ arg_last_speaker = executor
    /\ Len(arg_messages) = MaxLen
    /\ LastContent = ExitCode1
    /\ result = coder

\* C2: the routing table: after Init the Coder, after the Coder the Executor,
\* after an Executor turn that reports success the Scientist, and nothing else
C2_RoutingTable ==
    Called =>
        /\ arg_last_speaker = initializer => result = coder
        /\ arg_last_speaker = coder => result = executor
        /\ (arg_last_speaker = executor /\ arg_messages /= <<>>
              /\ LastContent = ExecSucceededReport) => result = scientist

C2_Witness ==
    /\ Called
    /\ arg_last_speaker = executor
    /\ arg_messages /= <<>>
    /\ LastContent = ExecSucceededReport
    /\ arg_messages[Len(arg_messages)].name = executor
    /\ result = scientist

\* C4 as claimed: a transcript that ends in the termination sentinel makes
\* the policy return terminate, whoever spoke last
C4_SentinelAlwaysTerminates ==
    (Called /\ arg_messages /= <<>> /\ LastContent = TerminationSentinel)
        => result = None

\* C4 as amended: on a transcript that ends in the termination sentinel the
\* policy routes as on any other transcript: Init to the Coder, the Coder to
\* the Executor, the Executor to the Scientist, and it returns terminate
\* exactly when the last speaker is none of these three
C4_SentinelIsRoutedByTable ==
    (Called /\ arg_messages /= <<>> /\ LastContent = TerminationSentinel) =>
        /\ arg_last_speaker = initializer => result = coder
        /\ arg_last_speaker = coder => result = executor
        /\ arg_last_speaker = executor => result = scientist
        /\ result = None <=> arg_last_speaker \notin {initializer, coder, executor}

C4_Witness ==
    /\ Called
    /\ arg_messages /= <<>>
    /\ LastContent = TerminationSentinel
    /\ arg_last_speaker = coder
    /\ result = executor

\* the policy cannot classify its arguments: the last speaker is none of the
\* four participants, or it is the Executor and there is no last message
Unclassifiable ==
    \/ arg_last_speaker \notin agents
    \/ arg_last_speaker = executor /\ arg_messages = <<>>

\* C9: when the policy cannot classify the last speaker or message it returns
\* terminate: it returns no participant and it does not raise
C9_FailsClosed ==
    (Called /\ Unclassifiable) => (result = None /\ result \notin agents /\ result /= IndexError)

\* C10 as claimed: on an empty transcript the policy returns the initiator,
\* whoever the last speaker is
C10_EmptyTranscriptReturnsInitiator ==
    (Called /\ arg_messages = <<>>) => result = initializer

\* C10 as amended: on an empty transcript the policy does not return the
\* initiator, whoever the last speaker is; when the last speaker is not the
\* Executor it routes by the last speaker alone: the Coder after Init, the
\* Executor after the Coder, terminate after anyone else
C10_EmptyTranscriptRoutedBySpeaker ==
    (Called /\ arg_messages = <<>>) =>
        /\ result /= initializer
        /\ arg_last_speaker = initializer => result = coder
        /\ arg_last_speaker = coder => result = executor
        /\ arg_last_speaker \notin {initializer, coder, executor} => result = None

\* the policy called after Init on an empty transcript returned the Coder
C10_Witness ==
    /\ Called
    /\ arg_messages = <<>>
    /\ arg_last_speaker = initializer
    /\ result = coder

-----------------------------------------------------------------------------
(* Properties of the conversations driven by the policy (Spec) *)

\* C3: after the Scientist has spoken the policy returns None and the
\* conversation ends: a Scientist turn is the last turn of its transcript
C3_ScientistTurnIsFinal ==
    \A i \in 1..Len(transcript) :
        transcript[i].speaker = scientist =>
            (i = Len(transcript) /\ speaker = None /\ terminated)

C3_Witness ==
    /\ transcript /= <<>>
    /\ transcript[Len(transcript)].speaker = scientist
    /\ round_count < max_rounds
    /\ terminated
    /\ status = "policy-terminated"

\* C5: round_count never exceeds max_rounds, and the transcript holds one
\* turn per round: no turn is appended beyond the cap
C5_RoundCountWithinCap ==
    /\ round_count <= max_rounds
    /\ Len(transcript) = round_count

C5_Witness ==
    /\ max_rounds = max_round
    /\ round_count = max_round
    /\ terminated
    /\ speaker \in agents

\* C6: with max_rounds = 3 and a policy that has not returned terminate, the
\* loop stops after exactly 3 turns with the status "round-limit-reached"
C6_StopsAfterExactlyThreeTurns ==
    (max_rounds = 3 /\ speaker \in agents) =>
        /\ round_count <= 3
        /\ terminated <=> round_count = 3
        /\ terminated => (Len(transcript) = 3 /\ status = "round-limit-reached")

C6_Witness ==
    /\ max_rounds = 3
    /\ speaker \in agents
    /\ terminated
    /\ Len(transcript) = 3
    /\ status = "round-limit-reached"

\* C7: once terminated is true no turn is appended any more
C7_NoTurnAfterTermination ==
    [][terminated => (transcript' = transcript /\ terminated')]_vars

C7_Witness ==
    /\ terminated
    /\ transcript /= <<>>
    /\ speaker \in agents
    /\ Replies(speaker) /= {}

-----------------------------------------------------------------------------
(* Properties of the Transcript (SpecTranscript) and of Turn 0 (Spec) *)

\* the turn at position i (counted from 0) has sequence_number i
NumberedWithoutGaps(t) == \A i \in 1..Len(t) : t[i].sequence_number = i - 1

\* every turn of t is still the same turn of u
IsKeptIn(t, u) == Len(u) >= Len(t) /\ \A i \in 1..Len(t) : u[i] = t[i]

\* C11: whatever appends are tried, the sequence_numbers of the accepted
\* turns increase strictly and without gaps (turn i has sequence_number i)
\* and an append never changes an earlier turn
C11_SequenceNumbersWithoutGaps ==
    [][/\ NumberedWithoutGaps(transcript')
       /\ \A i \in 1..Len(transcript') : \A j \in 1..Len(transcript') :
             i < j => transcript'[i].sequence_number < transcript'[j].sequence_number
       /\ IsKeptIn(transcript, transcript')]_vars

C11_Witness ==
    /\ Len(transcript) = MaxAppends + 1
    /\ append_outcome = "rejected"
    /\ transcript[MaxAppends + 1].sequence_number = MaxAppends

\* C12: an initiator message that is the empty string is recorded as Turn 0,
\* with content "", sequence_number 0 and the initiator as its speaker, and
\* Turn 0 stays the first turn of the transcript
C12_EmptyInitialMessageIsTurnZero ==
    [][/\ initiate_chat("") =>
             transcript' = <<[speaker |-> initializer, content |-> "", sequence_number |-> 0]>>
       /\ transcript /= <<>> => (transcript' /= <<>> /\ transcript'[1] = transcript[1])]_vars

C12_Witness ==
    /\ Len(transcript) >= 3
    /\ transcript[1] = [speaker |-> initializer, content |-> "", sequence_number |-> 0]

-----------------------------------------------------------------------------
(* Properties of the customized compression (SpecCompress) *)

\* C19: for more than 3 messages constrain_num_messages returns True with
\* the first, the second-to-last and the last message in that order; for 3
\* messages or fewer it returns (False, None); its result never holds more
\* than 3 messages and its argument is left as it is
C19_KeepsFirstAndLastTwo ==
    fn_output.status = "returned" =>
        LET messages == fn_input.messages
            n == Len(messages) IN
        /\ n > 3 => fn_output.value = <<TRUE, <<messages[1], messages[n - 1], messages[n]>> >>
        /\ n <= 3 => fn_output.value = <<FALSE, None>>
        /\ fn_output.value[1] => Len(fn_output.value[2]) <= 3

C19_Witness ==
    /\ fn_output.status = "returned"
    /\ Len(fn_input.messages) = MaxHistory
    /\ fn_input.messages[1] /= fn_input.messages[2]
    /\ fn_input.messages[MaxHistory - 1] /= fn_input.messages[MaxHistory]
    /\ fn_output.value[1]

-----------------------------------------------------------------------------
(* Properties of the group chat termination tool (SpecTerminate) *)

\* C18: whatever the message, a turn whose content is the text returned by
\* terminate_group_chat satisfies the manager's is_termination_msg
C18_ToolResultTerminates ==
    fn_output.status = "returned" =>
        /\ is_termination_msg([content |-> fn_output.value, role |-> "tool"])
        /\ ~is_termination_msg([role |-> "tool"])

C18_Witness ==
    /\ fn_output.status = "returned"
    /\ Len(fn_input.message) = MaxPieces
    /\ ~is_termination_msg([content |-> fn_input.message])
    /\ is_termination_msg([content |-> fn_output.value])

-----------------------------------------------------------------------------
(* Properties of the custom model client (SpecUsage) *)

\* C20: get_usage of CustomModelClient, and of the class that inherits it,
\* returns for every response a dict that has the keys prompt_tokens,
\* completion_tokens, total_tokens, cost and model
C20_GetUsageHasUsageKeys ==
    fn_output.status = "returned" => RESPONSE_USAGE_KEYS \subseteq DOMAIN fn_output.value

-----------------------------------------------------------------------------
(* Properties of the registered tools (SpecTools) *)

\* the lines of a text
Lines(text) == {text[i] : i \in 1..Len(text)}

\* C14: a failing tool call ends as text content, never as an exception:
\* the log of exec_python holds the error raised before or in the execution
\* of the cell, and currency_calculator on an unsupported pair of currencies
\* gives a text that reports the error
C14_ToolErrorsAreText ==
    /\ fn_output.status /= "raised"
    /\ fn_output.status = "returned" =>
        /\ fn_output.value.kind = "text"
        /\ fn_output.value.impl = "exec_python" =>
            /\ fn_input.run_cell.error_before_exec /= None =>
                  Str(fn_input.run_cell.error_before_exec) \in Lines(fn_output.value.text)
            /\ fn_input.run_cell.error_in_exec /= None =>
                  Str(fn_input.run_cell.error_in_exec) \in Lines(fn_output.value.text)
        /\ (fn_output.value.impl = "currency_calculator"
              /\ exchange_rate(fn_input.base_currency, fn_input.quote_currency).status = "raised") =>
            /\ fn_output.value.text[1] = Str("Error: ")
            /\ fn_output.value.text[2].str.type = "ValueError"

C14_FailedCellWitness ==
    /\ fn_output.status = "returned"
    /\ fn_output.value.impl = "exec_python"
    /\ fn_input.name = "python"
    /\ fn_input.run_cell.error_in_exec /= None
    /\ fn_input.run_cell.error_before_exec = None
    /\ Len(fn_output.value.text) = 2

\* C17: each registered tool name runs the implementation its description
\* names: "python" runs exec_python in IPython, "sh" runs exec_sh, which
\* executes its argument as a shell script
C17_ToolNamesRunTheirImplementation ==
    (fn_output.status = "returned"
       /\ fn_input.example \in {"agentchat_function_call", "agentchat_compression"}) =>
        /\ fn_input.name = "python" =>
              (fn_output.value.impl = "exec_python" /\ fn_output.value.ran.interpreter = "ipython")
        /\ fn_input.name = "sh" =>
              (fn_output.value.impl = "exec_sh" /\ fn_output.value.ran.interpreter = "sh")

-----------------------------------------------------------------------------
(* Properties of the cached image generation (SpecDalle) *)

\* the key (model, prompt, size, quality, n) of the last call
LastKey(last) == <<last.args.model, last.args.prompt, last.args.size,
                   last.args.quality, last.args.n>>

\* C15 as claimed: the image API is called only on a cache miss: a call
\* whose key is in the cache returns the cached data and calls nothing; a
\* call that misses calls the API once, stores the data under exactly its
\* key and returns it; no call changes what another key holds, so a later
\* call with the same key returns the same data
C15_ApiOnlyOnCacheMiss ==
    [][LET key == LastKey(dalle_last') IN
       /\ key \in DOMAIN dalle_cache =>
             /\ dalle_last'.status = "returned"
             /\ dalle_last'.value = dalle_cache[key]
             /\ api_calls' = api_calls
             /\ dalle_cache' = dalle_cache
       /\ key \notin DOMAIN dalle_cache =>
             /\ api_calls' = api_calls + 1
             /\ dalle_last'.status = "returned"
             /\ DOMAIN dalle_cache' = DOMAIN dalle_cache \cup {key}
             /\ dalle_cache'[key] = dalle_last'.value
       /\ \A k \in DOMAIN dalle_cache :
             k \in DOMAIN dalle_cache' /\ dalle_cache'[k] = dalle_cache[k]]_dalle_vars

\* C15 as amended: the image API is called only on a cache miss: a call
\* whose key is in the cache returns the cached data and calls nothing; a
\* call that misses calls the API once and either stores the data under
\* exactly its key and returns it, or raises and leaves the cache as it was,
\* so that a later call with the same key misses again; no call changes
\* what another key holds
C15_ApiOnlyOnCacheMissStoredUnlessRaised ==
    [][LET key == LastKey(dalle_last') IN
       /\ key \in DOMAIN dalle_cache =>
             /\ dalle_last'.status = "returned"
             /\ dalle_last'.value = dalle_cache[key]
             /\ api_calls' = api_calls
             /\ dalle_cache' = dalle_cache
       /\ key \notin DOMAIN dalle_cache =>
             /\ api_calls' = api_calls + 1
             /\ \/ /\ dalle_last'.status = "returned"
                   /\ DOMAIN dalle_cache' = DOMAIN dalle_cache \cup {key}
                   /\ dalle_cache'[key] = dalle_last'.value
                \/ /\ dalle_last'.status = "raised"
                   /\ dalle_cache' = dalle_cache
       /\ \A k \in DOMAIN dalle_cache :
             k \in DOMAIN dalle_cache' /\ dalle_cache'[k] = dalle_cache[k]]_dalle_vars

\* a second call of the API that raised: its key is not in the cache, which
\* holds what it held before
C15_Witness ==
    /\ dalle_last.status = "raised"
    /\ dalle_last.api_called
    /\ api_calls = 2
    /\ LastKey(dalle_last) \notin DOMAIN dalle_cache
    /\ Cardinality(DOMAIN dalle_cache) = 3

-----------------------------------------------------------------------------
(* Properties of the streaming example (SpecStream) *)

\* C13: at most one participant is producing a reply at any time: the loop
\* asks user_proxy for a reply only when the exchange started by the send it
\* awaited has ended, and inside an exchange the assistant and user_proxy
\* reply in turn
C13_OneReplyInProduction ==
    /\ RepliesInProduction(loop_pc, chain_pc) <= 1
    /\ Cardinality(Producing(loop_pc, chain_pc)) <= 1
    /\ loop_pc = "a_generate_reply" => chain_pc = "idle"

\* the loop awaits a send while the assistant produces the reply to news
C13_Witness ==
    /\ loop_pc = "a_send"
    /\ chain_pc = "assistant_reply"
    /\ delivered /= {}
    /\ RepliesInProduction(loop_pc, chain_pc) = 1

\* C16: every news the task produced is in a message user_proxy sent to the
\* assistant before the polling loop exits: when the loop has exited, all
\* five news were produced, none is left in the buffer, all were delivered
C16_EveryNewsDelivered ==
    loop_pc = "exited" =>
        /\ produced = NumNews
        /\ news_buffer = <<>>
        /\ delivered = NewsItems

-----------------------------------------------------------------------------
(* Properties of the failure test and of the speaker order *)

\* C23: after an Executor turn state_transition returns the Coder if and
\* only if the last content is exactly "exitcode: 1"; for every other
\* content, a longer report that begins with "exitcode: 1" included, it
\* returns the Scientist
C23_ExactExitCodeOnly ==
    (Called /\ arg_last_speaker = executor /\ arg_messages /= <<>>) =>
        /\ result = coder <=> LastContent = ExitCode1
        /\ LastContent /= ExitCode1 => result = scientist
        /\ (StartsWithExitCode1(LastContent) /\ LastContent /= ExitCode1)
              => result = scientist

\* the Executor's longer failure report was routed to the Scientist
C23_Witness ==
    /\ Called
    /\ arg_last_speaker = executor
    /\ arg_messages /= <<>>
    /\ LastContent = ExecFailedReport
    /\ result = scientist

\* C24: the speaker order respects the workflow: Init speaks only in the
\* first turn, a Coder turn follows an Init or Executor turn, an Executor
\* turn follows a Coder turn, a Scientist turn follows an Executor turn
C24_SpeakerOrder ==
    \A i \in 1..Len(transcript) :
        /\ transcript[i].speaker = initializer <=> i = 1
        /\ (i > 1 /\ transcript[i].speaker = coder) =>
              transcript[i - 1].speaker \in {initializer, executor}
        /\ (i > 1 /\ transcript[i].speaker = executor) =>
              transcript[i - 1].speaker = coder
        /\ (i > 1 /\ transcript[i].speaker = scientist) =>
              transcript[i - 1].speaker = executor

\* a conversation with a retry: Init, Coder, Executor, Coder, Executor, Scientist
C24_Witness ==
    /\ Len(transcript) = 6
    /\ transcript[3].speaker = executor
    /\ transcript[4].speaker = coder
    /\ transcript[6].speaker = scientist
    /\ terminated

-----------------------------------------------------------------------------
(* Properties of one reply of DalleCreator (SpecCreator) *)

\* the sends of a reply to one recipient
SentTo(recipient) == SelectSeq(sent, LAMBDA m : m.recipient = recipient)

\* the reply is over: it returned or it raised
ReplyEnded == creator_pc \in {"returned", "raised"}

\* C22: one reply of DalleCreator in which no image generation failed (no
\* call of the image API raised) runs exactly n_iters improvement
\* iterations: 1 + n_iters image generations and n_iters consultations of
\* the critics, first the initial generation, then per iteration one message
\* to the critics followed by one generation whose prompt is the PROMPT line
\* of the feedback to that message
C22_ExactlyNItersIterations ==
    (ReplyEnded /\ dalle_last.status /= "raised") =>
        /\ Len(SentTo(dalle)) = 1 + n_iters
        /\ Len(SentTo(critics)) = n_iters
        /\ Len(sent) = 1 + 2 * n_iters
        /\ sent[1].recipient = dalle
        /\ \A k \in 1..n_iters :
              /\ sent[2 * k].recipient = critics
              /\ sent[2 * k + 1].recipient = dalle
              /\ findall_PROMPT(sent[2 * k].feedback) /= <<>>
              /\ sent[2 * k + 1].content = findall_PROMPT(sent[2 * k].feedback)[1]

-----------------------------------------------------------------------------
(* Properties of the timer and the stopwatch (SpecToolRun) *)

\* both tool calls have started and neither has finished
BothRunning == \A k \in DOMAIN tool_calls : tool_state[k] = "running"

\* both tool calls have finished
BothDone == tool_calls /= <<>> /\ \A k \in DOMAIN tool_calls : tool_state[k] = "done"

\* C21: a timer and a stopwatch requested together can be executed in
\* parallel: when the two were requested and none was started yet, there is
\* a request of the two, in some order and for some numbers of seconds, and
\* an execution of it that gets into a configuration in which both calls
\* have started and neither has finished
C21_TimerAndStopwatchInParallel ==
    LET requested == [state |-> [k \in 1..2 |-> "requested"], left |-> [k \in 1..2 |-> 0]]
    IN [state |-> tool_state, left |-> tool_left] = requested =>
          \E calls \in ToolCallLists :
              \E c \in ToolRunReach(calls, {requested}) :
                  \A k \in DOMAIN calls : c.state[k] = "running"

\* what holds instead: in every execution one call runs to completion before
\* the other starts, and every configuration of the execution is one of
\* those C21 ranges over
ToolRunIsSequential ==
    LET requested == [state |-> [k \in 1..2 |-> "requested"], left |-> [k \in 1..2 |-> 0]]
    IN /\ ~BothRunning
       /\ [state |-> tool_state, left |-> tool_left] \in ToolRunReach(tool_calls, {requested})

\* both calls have finished, the second having started after the first ended
C21_Witness ==
    /\ BothDone
    /\ ToolRunIsSequential
    /\ tool_calls[1].name = timer
    /\ [k \in 1..4 |-> tool_events[k].event] = <<"start", "end", "start", "end">>
    /\ [k \in 1..4 |-> tool_events[k].tool] = <<timer, timer, stopwatch, stopwatch>>

====
